---- MODULE Spec2Model ----
(***************************************************************************)
(* Model of analyze.py: the ChatParser extractor (handle_starttag,         *)
(* handle_data), the Message timestamp accessor, the contributor queries,  *)
(* the cumulative timeline and the amnesty re-basing of the main program.  *)
(*                                                                         *)
(* A Python string is a sequence of tokens.  A token is one blank or one   *)
(* blank-free chunk of characters; a chunk that matters to the program     *)
(* (a class word, "UTC", a date DD.MM.YYYY, a time HH:MM:SS) has its own   *)
(* kind.  None is the empty tuple and a present value v is <<v>>.          *)
(***************************************************************************)
EXTENDS Integers, Sequences, FiniteSets, TLC

VARIABLES
    messageAuthor,      \* ChatParser.messageAuthor  (None or Some(string))
    messageText,        \* ChatParser.messageText
    messageDate,        \* ChatParser.messageDate
    makeNextDataName,   \* ChatParser.makeNextDataName
    makeNextDataText,   \* ChatParser.makeNextDataText
    messages,           \* ChatParser.messages: sequence of Message
    error,              \* "none", or the exception that ended the run
    events,             \* number of events HTMLParser has delivered to the handlers
    pc,                 \* position of the main program
    files,              \* number of files whose feed() has returned
    blocks,             \* the message blocks fed so far, as written in the files
    pos,                \* position of the feed inside the current message block
    start_date,         \* args.start_date (None or Some(day))
    todo,               \* contributingNames() not yet mapped to contributorData
    contributorData,    \* contributorData: sequence of [name, n, words, timeline, msgs]
    amnestyIndex,       \* number of contributorData entries the amnesty loop has done
    result,             \* what the last query on the parser returned or raised
    contributorDataSortedByNMessages,
    correlationMatrix,  \* correlationMatrix: the cell of every pair <<i, j>>
    mostTriggeredIndices,
    iIndex,             \* i of the loop of line 224
    jIndex,             \* j of the loop of line 226
    firstCommonDate,
    lastCommonDate,
    lastFirstDate,
    lastSecondDate,
    walkDate,           \* date of the loop of line 254
    commonFirstTimeline,
    commonSecondTimeline

parserVars == <<messageAuthor, messageText, messageDate, makeNextDataName,
                makeNextDataText, messages, error>>
feedVars == <<files, blocks, pos>>
mainVars == <<start_date, todo, contributorData, amnestyIndex>>
walkVars == <<firstCommonDate, lastCommonDate, lastFirstDate, lastSecondDate, walkDate,
              commonFirstTimeline, commonSecondTimeline>>
matrixVars == <<contributorDataSortedByNMessages, correlationMatrix, mostTriggeredIndices,
                iIndex, jIndex, walkVars>>
tailVars == <<result, matrixVars>>
vars == <<messageAuthor, messageText, messageDate, makeNextDataName,
          makeNextDataText, messages, error, events, pc, files, blocks, pos,
          start_date, todo, contributorData, amnestyIndex, result,
          contributorDataSortedByNMessages, correlationMatrix, mostTriggeredIndices,
          iIndex, jIndex, firstCommonDate, lastCommonDate, lastFirstDate,
          lastSecondDate, walkDate, commonFirstTimeline, commonSecondTimeline>>

----------------------------------------------------------------------------
(* Bounds *)

MaxAttrs == 2
MaxMessages == 2
MaxEvents == 8
MaxBlocks == 3
MaxFiles == 2
MaxDay == 3
MaxAnalysed == 3
MaxPerAuthor == 3

----------------------------------------------------------------------------
(* Strings *)

None == <<>>
Some(v) == <<v>>

Tok(k, n) == [kind |-> k, n |-> n]
SP == Tok(" ", 0)
W(c) == Tok(c, 0)
DayTok(n) == Tok("date", n)
TimeTok(n) == Tok("time", n)

Str(c) == <<W(c)>>

RECURSIVE LStrip(_)
LStrip(s) ==
    IF s = <<>> THEN <<>>
    ELSE IF Head(s) = SP THEN LStrip(Tail(s)) ELSE s

RECURSIVE RStrip(_)
RStrip(s) ==
    IF s = <<>> THEN <<>>
    ELSE IF s[Len(s)] = SP THEN RStrip(SubSeq(s, 1, Len(s) - 1)) ELSE s

\* str.strip()
Strip(s) == RStrip(LStrip(s))

\* index of the first occurrence of sub in s, 0 when there is none
Find(s, sub) ==
    LET hits == {i \in 1..(Len(s) - Len(sub) + 1) : SubSeq(s, i, i + Len(sub) - 1) = sub}
    IN IF hits = {} THEN 0 ELSE CHOOSE i \in hits : \A j \in hits : i <= j

\* str.split(sep): the list of the pieces between the occurrences of sep
RECURSIVE SplitOn(_, _)
SplitOn(s, sep) ==
    LET i == Find(s, sep)
    IN IF i = 0 THEN <<s>>
       ELSE <<SubSeq(s, 1, i - 1)>> \o SplitOn(SubSeq(s, i + Len(sep), Len(s)), sep)

\* str.replace(sub, "")
RECURSIVE Remove(_, _)
Remove(s, sub) ==
    LET i == Find(s, sub)
    IN IF i = 0 THEN s
       ELSE SubSeq(s, 1, i - 1) \o Remove(SubSeq(s, i + Len(sub), Len(s)), sub)

InList(x, list) == \E i \in 1..Len(list) : list[i] = x

ViaGif == <<SP, W("via"), SP, W("@gif")>>
UtcMark == <<SP, W("UTC")>>

----------------------------------------------------------------------------
(* Message *)

Message(author, message, date) == [author |-> author, message |-> message, date |-> date]

----------------------------------------------------------------------------
(* ChatParser *)

Attr(name, value) == [name |-> name, value |-> value]

\* the parser object as one record
Parser == [messageAuthor |-> messageAuthor, messageText |-> messageText,
           messageDate |-> messageDate, makeNextDataName |-> makeNextDataName,
           makeNextDataText |-> makeNextDataText, messages |-> messages,
           error |-> error]

\* the pending message put in front of the sequence instead of at its end
CommitPendingInFront(p) ==
    IF p.messageDate /= None /\ p.messageAuthor /= None /\ p.messageText /= None
    THEN [p EXCEPT !.messages = <<Message(p.messageAuthor[1], p.messageText[1], p.messageDate[1])>>
                        \o p.messages,
                   !.messageAuthor = None,
                   !.messageText = None,
                   !.messageDate = None]
    ELSE p

\* lines 71-75: the boundary commits the pending message when it is complete
CommitPending(p) ==
    IF p.messageDate /= None /\ p.messageAuthor /= None /\ p.messageText /= None
    THEN [p EXCEPT !.messages = p.messages \o
                        <<Message(p.messageAuthor[1], p.messageText[1], p.messageDate[1])>>,
                   !.messageAuthor = None,
                   !.messageText = None,
                   !.messageDate = None]
    ELSE p

\* lines 62-65: a title attribute met while makeNextAttributeDate is set
TitleStep(st, a) ==
    IF st.makeNextAttributeDate /\ a.name = "title"
    THEN IF a.value = None
         THEN [st EXCEPT !.p.error = "AttributeError"]
         ELSE [st EXCEPT !.p.messageDate = Some(Strip(a.value[1])),
                         !.makeNextAttributeDate = FALSE]
    ELSE st

\* lines 67-81: a class attribute
ClassStep(st, a) ==
    IF a.name /= "class" THEN st
    ELSE IF a.value = None THEN [st EXCEPT !.p.error = "AttributeError"]
    ELSE LET classList == SplitOn(a.value[1], <<SP>>)
         IN IF InList(Str("message"), classList) THEN [st EXCEPT !.p = CommitPending(st.p)]
            ELSE IF InList(Str("date"), classList) THEN [st EXCEPT !.makeNextAttributeDate = TRUE]
            ELSE IF InList(Str("from_name"), classList) THEN [st EXCEPT !.p.makeNextDataName = TRUE]
            ELSE IF InList(Str("text"), classList) THEN [st EXCEPT !.p.makeNextDataText = TRUE]
            ELSE st

\* lines 61-81: the body of the loop for one attribute
AttributeStep(st, a) ==
    LET st1 == TitleStep(st, a)
    IN IF st1.p.error /= "none" THEN st1 ELSE ClassStep(st1, a)

RECURSIVE AttributeLoop(_, _)
AttributeLoop(st, attributes) ==
    IF attributes = <<>> \/ st.p.error /= "none" THEN st
    ELSE AttributeLoop(AttributeStep(st, Head(attributes)), Tail(attributes))

\* lines 58-81
handle_starttag(p, tag, attributes) ==
    AttributeLoop([p |-> p, makeNextAttributeDate |-> FALSE], attributes).p

\* the author taken without disarming the flag
DataNameArmed(p, data) ==
    IF p.makeNextDataName
    THEN [p EXCEPT !.messageAuthor = Some(Strip(Remove(data, ViaGif)))]
    ELSE p

\* lines 84-86
DataName(p, data) ==
    IF p.makeNextDataName
    THEN [p EXCEPT !.messageAuthor = Some(Strip(Remove(data, ViaGif))),
                   !.makeNextDataName = FALSE]
    ELSE p

\* the body text committing the message itself once all three fields are there
DataTextCommitting(p, data) ==
    IF p.makeNextDataText
    THEN CommitPending([p EXCEPT !.messageText = Some(Strip(data)),
                                 !.makeNextDataText = FALSE])
    ELSE p

\* lines 88-90
DataText(p, data) ==
    IF p.makeNextDataText
    THEN [p EXCEPT !.messageText = Some(Strip(data)),
                   !.makeNextDataText = FALSE]
    ELSE p

\* lines 83-90
handle_data(p, data) == DataText(DataName(p, data), data)

\* the parser object after an event
SetParser(p) ==
    /\ messageAuthor' = p.messageAuthor
    /\ messageText' = p.messageText
    /\ messageDate' = p.messageDate
    /\ makeNextDataName' = p.makeNextDataName
    /\ makeNextDataText' = p.makeNextDataText
    /\ messages' = p.messages
    /\ error' = p.error
    /\ events' = events + 1

----------------------------------------------------------------------------
(* Inputs of the extractor *)

\* handle_starttag never reads its tag argument
TagNames == {"div"}

TitleA == <<SP, DayTok(1), SP, TimeTok(1), SP>>
TitleBlank == <<SP>>

ClassValues == {<<W("message"), SP, W("default")>>,
                <<W("pull_right"), SP, W("date")>>,
                Str("from_name"),
                Str("text")}

AttrPool == {Attr("class", Some(c)) : c \in ClassValues}
            \cup {Attr("class", None), Attr("id", Some(Str("message1")))}
            \cup {Attr("title", Some(t)) : t \in {TitleA, TitleBlank}}

\* the attribute lists of a tag: no attribute written twice
AttrLists ==
    {l \in UNION {[1..n -> AttrPool] : n \in 0..MaxAttrs} :
        \A m, n \in 1..Len(l) : l[m] = l[n] => m = n}

DataInputs == {<<SP, W("Ann"), SP, W("via"), SP, W("@gif"), SP>>, <<SP>>}

----------------------------------------------------------------------------
(* The extractor under arbitrary events *)

InitParser ==
    /\ messageAuthor = None
    /\ messageText = None
    /\ messageDate = None
    /\ makeNextDataName = FALSE
    /\ makeNextDataText = FALSE
    /\ messages = <<>>
    /\ error = "none"

\* nothing queried, sorted or correlated yet
InitTail ==
    /\ result = None
    /\ contributorDataSortedByNMessages = <<>>
    /\ correlationMatrix = <<>>
    /\ mostTriggeredIndices = <<>>
    /\ iIndex = 0
    /\ jIndex = 0
    /\ firstCommonDate = 0
    /\ lastCommonDate = 0
    /\ lastFirstDate = 0
    /\ lastSecondDate = 0
    /\ walkDate = 0
    /\ commonFirstTimeline = <<>>
    /\ commonSecondTimeline = <<>>

InitRest ==
    /\ InitTail
    /\ events = 0
    /\ files = 0
    /\ blocks = <<>>
    /\ pos = 0
    /\ start_date = None
    /\ todo = {}
    /\ contributorData = <<>>
    /\ amnestyIndex = 0

Init ==
    /\ InitParser
    /\ InitRest
    /\ pc = "feed"

Running == pc = "feed" /\ error = "none"

\* HTMLParser calls handle_starttag for a start tag of the fed text
StartTag ==
    /\ Running /\ events < MaxEvents
    /\ Len(messages) < MaxMessages
    /\ \E tag \in TagNames, attributes \in AttrLists :
          SetParser(handle_starttag(Parser, tag, attributes))
    /\ UNCHANGED <<pc, feedVars, mainVars, tailVars>>

\* HTMLParser calls handle_data for the text between two tags
Data ==
    /\ Running /\ events < MaxEvents
    /\ \E data \in DataInputs : SetParser(handle_data(Parser, data))
    /\ UNCHANGED <<pc, feedVars, mainVars, tailVars>>

Next == StartTag \/ Data

Spec == Init /\ [][Next]_vars

----------------------------------------------------------------------------
(* The extractor fed well-formed files, one after another (lines 172-179) *)

RawAuthors == {<<SP, W("Ann"), SP>>, <<W("Bob"), SP, W("via"), SP, W("@gif")>>}
RawTexts == {<<SP, W("hi"), SP, W("there"), SP>>, <<W("ok")>>}
RawTitles == {<<SP, DayTok(1), SP, TimeTok(1), SP>>,
              <<DayTok(2), SP, TimeTok(1), SP, W("UTC"), W("+2")>>}

RawBlocks == [author : RawAuthors, text : RawTexts, title : RawTitles]

InitDocs ==
    /\ InitParser
    /\ InitRest
    /\ pc = "feed"

Current == blocks[Len(blocks)]

\* <div class="message default clearfix">
FeedBoundary ==
    /\ Running /\ pos = 0 /\ files < MaxFiles /\ Len(blocks) < MaxBlocks
    /\ \E b \in RawBlocks :
          blocks' = Append(blocks, [author |-> b.author, text |-> b.text,
                                    title |-> b.title, file |-> files + 1])
    /\ SetParser(handle_starttag(Parser, "div",
                    <<Attr("class", Some(<<W("message"), SP, W("default"), SP, W("clearfix")>>))>>))
    /\ pos' = 1
    /\ UNCHANGED <<pc, files, mainVars, tailVars>>

\* <div class="pull_right date details" title="...">
FeedDate ==
    /\ Running /\ pos = 1
    /\ SetParser(handle_starttag(Parser, "div",
                    <<Attr("class", Some(<<W("pull_right"), SP, W("date"), SP, W("details")>>)),
                      Attr("title", Some(Current.title))>>))
    /\ pos' = 2
    /\ UNCHANGED <<pc, files, blocks, mainVars, tailVars>>

\* <div class="from_name">
FeedFromName ==
    /\ Running /\ pos = 2
    /\ SetParser(handle_starttag(Parser, "div", <<Attr("class", Some(Str("from_name")))>>))
    /\ pos' = 3
    /\ UNCHANGED <<pc, files, blocks, mainVars, tailVars>>

\* the text after the from_name tag
FeedAuthor ==
    /\ Running /\ pos = 3
    /\ SetParser(handle_data(Parser, Current.author))
    /\ pos' = 4
    /\ UNCHANGED <<pc, files, blocks, mainVars, tailVars>>

\* <div class="text">
FeedTextTag ==
    /\ Running /\ pos = 4
    /\ SetParser(handle_starttag(Parser, "div", <<Attr("class", Some(Str("text")))>>))
    /\ pos' = 5
    /\ UNCHANGED <<pc, files, blocks, mainVars, tailVars>>

\* the text after the text tag
FeedText ==
    /\ Running /\ pos = 5
    /\ SetParser(handle_data(Parser, Current.text))
    /\ pos' = 0
    /\ UNCHANGED <<pc, files, blocks, mainVars, tailVars>>

\* feed() returns and the loop takes the next file
EndOfFile ==
    /\ Running /\ pos = 0 /\ files < MaxFiles
    /\ files' = files + 1
    /\ UNCHANGED <<parserVars, events, pc, blocks, pos, mainVars, tailVars>>

\* the loop over the files is over
EndOfFiles ==
    /\ Running /\ pos = 0 /\ files >= 1
    /\ pc' = "contributors"
    /\ UNCHANGED <<parserVars, events, feedVars, mainVars, tailVars>>

NextDocs ==
    \/ FeedBoundary
    \/ FeedDate
    \/ FeedFromName
    \/ FeedAuthor
    \/ FeedTextTag
    \/ FeedText
    \/ EndOfFile
    \/ EndOfFiles

SpecDocs == InitDocs /\ [][NextDocs]_vars

----------------------------------------------------------------------------
(* Files whose message blocks may lack a date, a from_name or a text *)

\* the k-th block of the files; every part that is there names its block
PartBlock(k, has) ==
    [author |-> IF has.author THEN Some(<<SP, W("Ann"), SP, Tok("no", k), SP>>) ELSE None,
     text |-> IF has.text THEN Some(<<W("hi"), SP, Tok("no", k)>>) ELSE None,
     title |-> IF has.title THEN Some(<<DayTok(k), SP, TimeTok(1)>>) ELSE None,
     file |-> files + 1]

\* <div class="message default clearfix"> or, without from_name, "... joined"
PartBoundary ==
    /\ Running /\ pos = 0 /\ Len(blocks) < MaxBlocks
    /\ \E has \in [author : BOOLEAN, text : BOOLEAN, title : BOOLEAN] :
          blocks' = Append(blocks, PartBlock(Len(blocks) + 1, has))
    /\ SetParser(handle_starttag(Parser, "div",
                    <<Attr("class", Some(<<W("message"), SP, W("default"), SP, W("clearfix")>>))>>))
    /\ pos' = 1
    /\ UNCHANGED <<pc, files, mainVars, tailVars>>

PartDate ==
    /\ Running /\ pos = 1 /\ Current.title /= None
    /\ SetParser(handle_starttag(Parser, "div",
                    <<Attr("class", Some(<<W("pull_right"), SP, W("date"), SP, W("details")>>)),
                      Attr("title", Current.title)>>))
    /\ pos' = 2
    /\ UNCHANGED <<pc, files, blocks, mainVars, tailVars>>

NoDate ==
    /\ Running /\ pos = 1 /\ Current.title = None
    /\ pos' = 2
    /\ UNCHANGED <<parserVars, events, pc, files, blocks, mainVars, tailVars>>

PartFromName ==
    /\ Running /\ pos = 2 /\ Current.author /= None
    /\ SetParser(handle_starttag(Parser, "div", <<Attr("class", Some(Str("from_name")))>>))
    /\ pos' = 3
    /\ UNCHANGED <<pc, files, blocks, mainVars, tailVars>>

PartAuthor ==
    /\ Running /\ pos = 3
    /\ SetParser(handle_data(Parser, Current.author[1]))
    /\ pos' = 4
    /\ UNCHANGED <<pc, files, blocks, mainVars, tailVars>>

NoFromName ==
    /\ Running /\ pos = 2 /\ Current.author = None
    /\ pos' = 4
    /\ UNCHANGED <<parserVars, events, pc, files, blocks, mainVars, tailVars>>

PartTextTag ==
    /\ Running /\ pos = 4 /\ Current.text /= None
    /\ SetParser(handle_starttag(Parser, "div", <<Attr("class", Some(Str("text")))>>))
    /\ pos' = 5
    /\ UNCHANGED <<pc, files, blocks, mainVars, tailVars>>

PartText ==
    /\ Running /\ pos = 5
    /\ SetParser(handle_data(Parser, Current.text[1]))
    /\ pos' = 0
    /\ UNCHANGED <<pc, files, blocks, mainVars, tailVars>>

NoText ==
    /\ Running /\ pos = 4 /\ Current.text = None
    /\ pos' = 0
    /\ UNCHANGED <<parserVars, events, pc, files, blocks, mainVars, tailVars>>

NextParts ==
    \/ PartBoundary
    \/ PartDate
    \/ NoDate
    \/ PartFromName
    \/ PartAuthor
    \/ NoFromName
    \/ PartTextTag
    \/ PartText
    \/ NoText

SpecParts == InitDocs /\ [][NextParts]_vars

----------------------------------------------------------------------------
(* Message.dateTime (lines 39-44) *)

\* datetime.strptime(s, '%d.%m.%Y %H:%M:%S') succeeds
Parses(s) ==
    /\ Len(s) >= 3
    /\ s[1].kind = "date"
    /\ s[Len(s)].kind = "time"
    /\ \A i \in 2..(Len(s) - 1) : s[i] = SP

strptime(s) == [day |-> s[1].n, time |-> s[Len(s)].n]

NoDateTime == [day |-> 0, time |-> 0]

\* the message after the call, the exception raised and the value returned
dateTime(m) ==
    IF Parses(m.date)
    THEN [self |-> m, error |-> "none", value |-> strptime(m.date)]
    ELSE LET cut == SplitOn(m.date, UtcMark)[1]
             self == [m EXCEPT !.date = cut]
         IN IF Parses(cut)
            THEN [self |-> self, error |-> "none", value |-> strptime(cut)]
            ELSE [self |-> self, error |-> "ValueError", value |-> NoDateTime]

----------------------------------------------------------------------------
(* A Python dict: the sequence of its items in insertion order *)

Item(k, v) == [key |-> k, value |-> v]
DictHas(d, k) == \E i \in 1..Len(d) : d[i].key = k
DictGet(d, k) == d[CHOOSE i \in 1..Len(d) : d[i].key = k].value
DictPut(d, k, v) ==
    IF DictHas(d, k)
    THEN [i \in 1..Len(d) |-> IF d[i].key = k THEN Item(k, v) ELSE d[i]]
    ELSE Append(d, Item(k, v))
DictKeys(d) == [i \in 1..Len(d) |-> d[i].key]
DictValues(d) == [i \in 1..Len(d) |-> d[i].value]

\* the place of x in an ascending list
InsertSorted(list, x) ==
    LET k == Cardinality({i \in 1..Len(list) : list[i] <= x})
    IN SubSeq(list, 1, k) \o <<x>> \o SubSeq(list, k + 1, Len(list))

\* sorted(list)
RECURSIVE sorted(_)
sorted(list) ==
    IF list = <<>> THEN <<>> ELSE InsertSorted(sorted(Tail(list)), Head(list))

----------------------------------------------------------------------------
(* The contributor queries (lines 92-147) *)

\* lines 92-96
contributingNames(msgs) == {msgs[i].author : i \in 1..Len(msgs)}

\* lines 98-105
contributorMessages(msgs, name) ==
    LET own == SelectSeq(msgs, LAMBDA m : m.author = name)
    IN [i \in 1..Len(own) |-> own[i].message]

RECURSIVE Sum(_)
Sum(list) == IF list = <<>> THEN 0 ELSE Head(list) + Sum(Tail(list))

\* lines 116-123: reduce() without an initial value raises on an empty list
contributorNumberOfWords(msgs, name) ==
    LET texts == contributorMessages(msgs, name)
    IN IF texts = <<>>
       THEN [error |-> "TypeError", value |-> 0]
       ELSE [error |-> "none",
             value |-> Sum([i \in 1..Len(texts) |-> Len(SplitOn(texts[i], <<SP>>))])]

\* number of characters of the chunks the analysed texts are made of
WordLength == [hi |-> 2, there |-> 5]

Chars(t) ==
    IF t = SP THEN 1
    ELSE IF t.kind = "date" THEN 10
    ELSE IF t.kind = "time" THEN 8
    ELSE WordLength[t.kind]

\* len(str)
StrLen(s) == Sum([k \in 1..Len(s) |-> Chars(s[k])])

\* lines 107-114: reduce() without an initial value raises on an empty list
contributorNumberOfChars(msgs, name) ==
    LET texts == contributorMessages(msgs, name)
    IN IF texts = <<>>
       THEN [error |-> "TypeError", value |-> 0]
       ELSE [error |-> "none",
             value |-> Sum([k \in 1..Len(texts) |-> StrLen(texts[k])])]

\* lines 125-126
contributorNumberOfMessages(msgs, name) == Len(contributorMessages(msgs, name))

\* lines 134-137
CountDate(messagesPerDate, date) ==
    IF DictHas(messagesPerDate, date)
    THEN DictPut(messagesPerDate, date, DictGet(messagesPerDate, date) + 1)
    ELSE DictPut(messagesPerDate, date, 1)

\* lines 131-137: the loop over the messages, from message i on
RECURSIVE CountLoop(_, _, _)
CountLoop(st, name, i) ==
    IF i > Len(st.messages) \/ st.error /= "none" THEN st
    ELSE IF st.messages[i].author /= name THEN CountLoop(st, name, i + 1)
    ELSE LET r == dateTime(st.messages[i])
             called == [st EXCEPT !.messages[i] = r.self, !.error = r.error]
         IN IF r.error /= "none" THEN called
            ELSE CountLoop([called EXCEPT !.messagesPerDate = CountDate(@, r.value.day)],
                           name, i + 1)

\* every date given its own count instead of the running total
RECURSIVE AccumulatePerDay(_, _, _, _)
AccumulatePerDay(dates, messagesPerDate, totalMessages, timeline) ==
    IF dates = <<>> THEN timeline
    ELSE AccumulatePerDay(Tail(dates), messagesPerDate, totalMessages,
                          DictPut(timeline, Head(dates), DictGet(messagesPerDate, Head(dates))))

\* lines 141-145
RECURSIVE Accumulate(_, _, _, _)
Accumulate(dates, messagesPerDate, totalMessages, timeline) ==
    IF dates = <<>> THEN timeline
    ELSE LET total == totalMessages + DictGet(messagesPerDate, Head(dates))
         IN Accumulate(Tail(dates), messagesPerDate, total,
                       DictPut(timeline, Head(dates), total))

\* lines 128-147: the messages after the calls of dateTime, the exception
\* raised and the timeline returned
contributorTimeline(msgs, name) ==
    LET st == CountLoop([messages |-> msgs, messagesPerDate |-> <<>>, error |-> "none"], name, 1)
    IN [messages |-> st.messages,
        error |-> st.error,
        timeline |-> IF st.error /= "none" THEN <<>>
                     ELSE Accumulate(sorted(DictKeys(st.messagesPerDate)),
                                     st.messagesPerDate, 0, <<>>)]

----------------------------------------------------------------------------
(* The main program after the files are read (lines 181-211) *)

\* the amnesty keeping the cutoff date itself
AmnestyFromCutoff(c, cutoff) ==
    LET x == SelectSeq(DictKeys(c.timeline), LAMBDA day : day >= cutoff)
        y == DictValues(c.timeline)
    IN IF Len(x) = 0
       THEN [c EXCEPT !.nMessages = 0, !.timeline = <<>>]
       ELSE LET tail == SubSeq(y, Len(y) - Len(x) + 1, Len(y))
                oldMessages == tail[1]
            IN [c EXCEPT !.nMessages = @ - oldMessages,
                         !.timeline = [i \in 1..Len(x) |-> Item(x[i], tail[i] - oldMessages)]]

\* the amnesty leaving the message count of a kept timeline as it was
AmnestyKeepingCount(c, cutoff) ==
    LET x == SelectSeq(DictKeys(c.timeline), LAMBDA day : day > cutoff)
        y == DictValues(c.timeline)
    IN IF Len(x) = 0
       THEN [c EXCEPT !.nMessages = 0, !.timeline = <<>>]
       ELSE LET tail == SubSeq(y, Len(y) - Len(x) + 1, Len(y))
                oldMessages == tail[1]
            IN [c EXCEPT !.timeline = [i \in 1..Len(x) |-> Item(x[i], tail[i] - oldMessages)]]

\* lines 194-211: the body of the amnesty loop for one contributor
Amnesty(c, cutoff) ==
    LET x == SelectSeq(DictKeys(c.timeline), LAMBDA day : day > cutoff)
        y == DictValues(c.timeline)
    IN IF Len(x) = 0
       THEN [c EXCEPT !.nMessages = 0, !.timeline = <<>>]
       ELSE LET tail == SubSeq(y, Len(y) - Len(x) + 1, Len(y))
                oldMessages == tail[1]
            IN [c EXCEPT !.nMessages = @ - oldMessages,
                         !.timeline = [i \in 1..Len(x) |-> Item(x[i], tail[i] - oldMessages)]]

AnalysedAuthors == {Str("Ann"), Str("Bob")}
AnalysedTexts == {<<W("hi"), SP, W("there")>>}
AnalysedDates == {<<DayTok(d), SP, TimeTok(1)>> : d \in 1..MaxDay}
                 \cup {<<DayTok(2), SP, TimeTok(2), SP, W("UTC"), W("+2")>>, Str("yesterday")}
AnalysedMessages ==
    {Message(a, t, d) : a \in AnalysedAuthors, t \in AnalysedTexts, d \in AnalysedDates}

\* the chats analysed; Ann is the author of the first message
AnalysedChats ==
    {chat \in UNION {[1..n -> AnalysedMessages] : n \in 0..MaxAnalysed} :
        chat /= <<>> => chat[1].author = Str("Ann")}

\* the program when the loop over the files has ended
InitAnalysis ==
    /\ messageAuthor = None
    /\ messageText = None
    /\ messageDate = None
    /\ makeNextDataName = FALSE
    /\ makeNextDataText = FALSE
    /\ messages \in AnalysedChats
    /\ error = "none"
    /\ events = 0
    /\ pc = "contributors"
    /\ files = 1
    /\ blocks = <<>>
    /\ pos = 0
    /\ start_date \in {None} \cup {Some(d) : d \in 0..MaxDay}
    /\ todo = {}
    /\ contributorData = <<>>
    /\ amnestyIndex = 0
    /\ InitTail

\* line 189: the names are taken before the map runs
ContributingNames ==
    /\ pc = "contributors" /\ error = "none"
    /\ todo' = contributingNames(messages)
    /\ pc' = "map"
    /\ UNCHANGED <<parserVars, events, feedVars, start_date, contributorData, amnestyIndex,
                   tailVars>>

\* lines 181-188: the entry of one contributor; a set has no fixed order
MapContributor ==
    /\ pc = "map" /\ error = "none"
    /\ \E contributor \in todo :
          LET n == contributorNumberOfMessages(messages, contributor)
              words == contributorNumberOfWords(messages, contributor)
              tl == contributorTimeline(messages, contributor)
          IN IF words.error /= "none"
             THEN /\ error' = words.error
                  /\ UNCHANGED <<messages, todo, contributorData>>
             ELSE /\ messages' = tl.messages
                  /\ error' = tl.error
                  /\ IF tl.error /= "none"
                     THEN UNCHANGED <<todo, contributorData>>
                     ELSE /\ todo' = todo \ {contributor}
                          /\ contributorData' = Append(contributorData,
                                [name |-> contributor,
                                 nMessages |-> n,
                                 nWords |-> words.value,
                                 timeline |-> tl.timeline,
                                 texts |-> contributorMessages(tl.messages, contributor)])
    /\ UNCHANGED <<messageAuthor, messageText, messageDate, makeNextDataName,
                   makeNextDataText, events, pc, feedVars, start_date, amnestyIndex,
                   tailVars>>

\* line 192
MapDone ==
    /\ pc = "map" /\ error = "none" /\ todo = {}
    /\ pc' = IF start_date /= None THEN "amnesty" ELSE "rmnpc"
    /\ UNCHANGED <<parserVars, events, feedVars, mainVars, tailVars>>

\* lines 193-211: one round of the amnesty loop
AmnestyStep ==
    /\ pc = "amnesty" /\ amnestyIndex < Len(contributorData)
    /\ contributorData' = [contributorData EXCEPT
                              ![amnestyIndex + 1] = Amnesty(@, start_date[1])]
    /\ amnestyIndex' = amnestyIndex + 1
    /\ UNCHANGED <<parserVars, events, pc, feedVars, start_date, todo, tailVars>>

AmnestyDone ==
    /\ pc = "amnesty" /\ amnestyIndex = Len(contributorData)
    /\ pc' = "rmnpc"
    /\ UNCHANGED <<parserVars, events, feedVars, mainVars, tailVars>>

\* line 215
NpcThreshold == 50

\* lines 214-215: the npc remover
RemoveNpcs ==
    /\ pc = "rmnpc"
    /\ \E remove_npcs \in BOOLEAN :
          contributorData' = IF remove_npcs
                             THEN SelectSeq(contributorData, LAMBDA c : c.nMessages > NpcThreshold)
                             ELSE contributorData
    /\ pc' = "sort"
    /\ UNCHANGED <<parserVars, events, feedVars, start_date, todo, amnestyIndex, tailVars>>

\* sorted(list, key=itemgetter(1)): ascending and stable
RECURSIVE SortedByNMessages(_)
SortedByNMessages(list) ==
    IF list = <<>> THEN <<>>
    ELSE LET front == SortedByNMessages(SubSeq(list, 1, Len(list) - 1))
             c == list[Len(list)]
             k == Cardinality({n \in 1..Len(front) : front[n].nMessages <= c.nMessages})
         IN SubSeq(front, 1, k) \o <<c>> \o SubSeq(front, k + 1, Len(front))

\* reversed(list)
Reversed(list) == [n \in 1..Len(list) |-> list[Len(list) + 1 - n]]

\* lines 217-222
SortByNMessages ==
    /\ pc = "sort"
    /\ contributorDataSortedByNMessages' = Reversed(SortedByNMessages(contributorData))
    /\ correlationMatrix' = [cell \in (1..Len(contributorData)) \X (1..Len(contributorData))
                                |-> [num |-> 0, den |-> 1]]
    /\ mostTriggeredIndices' = <<>>
    /\ iIndex' = 0
    /\ jIndex' = 0
    /\ pc' = "rows"
    /\ UNCHANGED <<parserVars, events, feedVars, mainVars, result, walkVars>>

NextAnalysis ==
    \/ ContributingNames
    \/ MapContributor
    \/ MapDone
    \/ AmnestyStep
    \/ AmnestyDone
    \/ RemoveNpcs
    \/ SortByNMessages

SpecAnalysis == InitAnalysis /\ [][NextAnalysis]_vars

----------------------------------------------------------------------------
(* The correlation loop (lines 224-285) *)

\* A cell of the matrix is log10(1 + q); the model keeps the fraction q,
\* which is 0 exactly when the cell is 0 and orders the cells as they are.
Cell(num, den) == [num |-> num, den |-> den]
ZeroCell == Cell(0, 1)
Greater(x, y) == x.num * y.den > y.num * x.den
SameCell(x, y) == x.num * y.den = y.num * x.den

Max2(a, b) == IF a >= b THEN a ELSE b
Min2(a, b) == IF a <= b THEN a ELSE b

\* lines 241-242
NotEnoughCommonData(first, last, firstTimeline, secondTimeline) ==
    \/ ~DictHas(firstTimeline, first)
    \/ ~DictHas(secondTimeline, first)
    \/ ~DictHas(firstTimeline, last)
    \/ ~DictHas(secondTimeline, last)

FirstTimeline == contributorDataSortedByNMessages[iIndex + 1].timeline
SecondTimeline == contributorDataSortedByNMessages[jIndex + 1].timeline

Walk == [lastFirstDate |-> lastFirstDate, lastSecondDate |-> lastSecondDate,
         date |-> walkDate, commonFirstTimeline |-> commonFirstTimeline,
         commonSecondTimeline |-> commonSecondTimeline]

\* the aligned value always taken at the last remembered date
WalkBodyStale(w, firstTimeline, secondTimeline) ==
    LET first == IF DictHas(firstTimeline, w.date) THEN w.date ELSE w.lastFirstDate
        second == IF DictHas(secondTimeline, w.date) THEN w.date ELSE w.lastSecondDate
        day == w.date + 1
    IN [lastFirstDate |-> first,
        lastSecondDate |-> second,
        date |-> day,
        commonFirstTimeline |-> DictPut(w.commonFirstTimeline, day, DictGet(firstTimeline, first)),
        commonSecondTimeline |-> DictPut(w.commonSecondTimeline, day, DictGet(secondTimeline, second))]

\* the walk advancing two days at a time
WalkBodyTwoDays(w, firstTimeline, secondTimeline) ==
    LET first == IF DictHas(firstTimeline, w.date) THEN w.date ELSE w.lastFirstDate
        second == IF DictHas(secondTimeline, w.date) THEN w.date ELSE w.lastSecondDate
        day == w.date + 2
    IN [lastFirstDate |-> first,
        lastSecondDate |-> second,
        date |-> day,
        commonFirstTimeline |->
            DictPut(w.commonFirstTimeline, day,
                    DictGet(firstTimeline, IF DictHas(firstTimeline, day) THEN day ELSE first)),
        commonSecondTimeline |->
            DictPut(w.commonSecondTimeline, day,
                    DictGet(secondTimeline, IF DictHas(secondTimeline, day) THEN day ELSE second))]

\* lines 255-259: the body of the day walk
WalkBody(w, firstTimeline, secondTimeline) ==
    LET first == IF InList(w.date, sorted(DictKeys(firstTimeline))) THEN w.date ELSE w.lastFirstDate
        second == IF InList(w.date, sorted(DictKeys(secondTimeline))) THEN w.date ELSE w.lastSecondDate
        day == w.date + 1
    IN [lastFirstDate |-> first,
        lastSecondDate |-> second,
        date |-> day,
        commonFirstTimeline |->
            DictPut(w.commonFirstTimeline, day,
                    DictGet(firstTimeline, IF DictHas(firstTimeline, day) THEN day ELSE first)),
        commonSecondTimeline |->
            DictPut(w.commonSecondTimeline, day,
                    DictGet(secondTimeline, IF DictHas(secondTimeline, day) THEN day ELSE second))]

\* scipy.signal.correlate(a, b): the sum of a[l + lag] * b[l] for every lag
correlate(a, b) ==
    [n \in 1..(Len(a) + Len(b) - 1) |->
        LET lag == n - Len(b)
        IN Sum([l \in 1..Len(b) |->
                   IF l + lag >= 1 /\ l + lag <= Len(a) THEN a[l + lag] * b[l] ELSE 0])]

\* lines 267-276, without the logarithm
CellOf(first, second) ==
    Cell(Sum(correlate(DictValues(first), DictValues(second))),
         Len(DictValues(first)) * Len(DictValues(second)))

\* lines 280-284: the scan of row i from column j on
RECURSIVE MostTriggeredScan(_, _, _, _)
MostTriggeredScan(matrix, row, col, st) ==
    IF col > Len(contributorDataSortedByNMessages) THEN st
    ELSE MostTriggeredScan(matrix, row, col + 1,
            IF Greater(matrix[<<row, col>>], st.mostTriggeredValue)
            THEN [allAreTheSame |-> FALSE,
                  mostTriggeredValue |-> matrix[<<row, col>>],
                  mostTriggeredIndex |-> col - 1]
            ELSE st)

\* lines 277-285: what is appended to mostTriggeredIndices for row i
MostTriggered(matrix, row) ==
    LET st == MostTriggeredScan(matrix, row, 1,
                  [allAreTheSame |-> TRUE, mostTriggeredValue |-> ZeroCell,
                   mostTriggeredIndex |-> 0])
    IN IF ~st.allAreTheSame THEN st.mostTriggeredIndex ELSE -1

Authors == Len(contributorDataSortedByNMessages)

\* lines 225-251: a pair is taken; its anchors are looked up
PairStart ==
    /\ pc = "rows" /\ error = "none" /\ iIndex < Authors /\ jIndex < Authors
    /\ LET sortedFirst == sorted(DictKeys(FirstTimeline))
           sortedSecond == sorted(DictKeys(SecondTimeline))
       IN IF sortedFirst = <<>> \/ sortedSecond = <<>>
          THEN /\ error' = "IndexError"
               /\ UNCHANGED <<pc, jIndex, walkVars>>
          ELSE LET first == Max2(sortedFirst[1], sortedSecond[1])
                   last == Min2(sortedFirst[Len(sortedFirst)], sortedSecond[Len(sortedSecond)])
               IN /\ firstCommonDate' = first
                  /\ lastCommonDate' = last
                  /\ error' = error
                  /\ IF NotEnoughCommonData(first, last, FirstTimeline, SecondTimeline)
                     THEN /\ jIndex' = jIndex + 1
                          /\ UNCHANGED <<pc, lastFirstDate, lastSecondDate, walkDate,
                                         commonFirstTimeline, commonSecondTimeline>>
                     ELSE /\ lastFirstDate' = first
                          /\ lastSecondDate' = first
                          /\ walkDate' = first
                          /\ commonFirstTimeline' = <<>>
                          /\ commonSecondTimeline' = <<>>
                          /\ pc' = "walk"
                          /\ UNCHANGED jIndex
    /\ UNCHANGED <<messageAuthor, messageText, messageDate, makeNextDataName,
                   makeNextDataText, messages, events, feedVars, mainVars, result,
                   contributorDataSortedByNMessages, correlationMatrix,
                   mostTriggeredIndices, iIndex>>

\* lines 254-259: one day of the walk
WalkStep ==
    /\ pc = "walk" /\ walkDate /= lastCommonDate /\ walkDate <= MaxDay
    /\ LET w == WalkBody(Walk, FirstTimeline, SecondTimeline)
       IN /\ lastFirstDate' = w.lastFirstDate
          /\ lastSecondDate' = w.lastSecondDate
          /\ walkDate' = w.date
          /\ commonFirstTimeline' = w.commonFirstTimeline
          /\ commonSecondTimeline' = w.commonSecondTimeline
    /\ UNCHANGED <<parserVars, events, pc, feedVars, mainVars, result,
                   contributorDataSortedByNMessages, correlationMatrix,
                   mostTriggeredIndices, iIndex, jIndex, firstCommonDate, lastCommonDate>>

\* lines 261-276: the walk is over, the cell is set unless there is no day
WalkDone ==
    /\ pc = "walk" /\ walkDate = lastCommonDate
    /\ correlationMatrix' =
          IF Len(commonFirstTimeline) < 1 \/ Len(commonSecondTimeline) < 1
          THEN correlationMatrix
          ELSE [correlationMatrix EXCEPT ![<<iIndex + 1, jIndex + 1>>] =
                    CellOf(commonFirstTimeline, commonSecondTimeline)]
    /\ jIndex' = jIndex + 1
    /\ pc' = "rows"
    /\ UNCHANGED <<parserVars, events, feedVars, mainVars, result,
                   contributorDataSortedByNMessages, mostTriggeredIndices, iIndex, walkVars>>

\* lines 277-285: the row is over
RowDone ==
    /\ pc = "rows" /\ error = "none" /\ iIndex < Authors /\ jIndex = Authors
    /\ mostTriggeredIndices' = Append(mostTriggeredIndices,
                                      MostTriggered(correlationMatrix, iIndex + 1))
    /\ iIndex' = iIndex + 1
    /\ jIndex' = 0
    /\ UNCHANGED <<parserVars, events, pc, feedVars, mainVars, result,
                   contributorDataSortedByNMessages, correlationMatrix, walkVars>>

\* line 287: the loop over the rows is over
RowsDone ==
    /\ pc = "rows" /\ error = "none" /\ iIndex = Authors
    /\ pc' = "names"
    /\ UNCHANGED <<parserVars, events, feedVars, mainVars, tailVars>>

NextMatrix ==
    \/ PairStart
    \/ WalkStep
    \/ WalkDone
    \/ RowDone
    \/ RowsDone

\* n copies of a message
Repeat(m, n) == [k \in 1..n |-> m]

\* the messages of an author: counts[d] messages on day d, day after day
RECURSIVE MessagesOf(_, _, _)
MessagesOf(author, counts, d) ==
    IF d > MaxDay THEN <<>>
    ELSE Repeat(Message(author, <<W("hi"), SP, W("there")>>, <<DayTok(d), SP, TimeTok(1)>>),
                counts[d])
         \o MessagesOf(author, counts, d + 1)

DayCounts == {c \in [1..MaxDay -> 0..MaxPerAuthor] :
                 Sum([d \in 1..MaxDay |-> c[d]]) <= MaxPerAuthor}

\* the program when the loop over the files has ended, for two authors, run
\* without a start date or with day 1 as the start date
InitMatrix ==
    /\ messageAuthor = None
    /\ messageText = None
    /\ messageDate = None
    /\ makeNextDataName = FALSE
    /\ makeNextDataText = FALSE
    /\ \E ann \in DayCounts, bob \in DayCounts :
          messages = MessagesOf(Str("Ann"), ann, 1) \o MessagesOf(Str("Bob"), bob, 1)
    /\ error = "none"
    /\ events = 0
    /\ pc = "contributors"
    /\ files = 1
    /\ blocks = <<>>
    /\ pos = 0
    /\ start_date \in {None, Some(1)}
    /\ todo = {}
    /\ contributorData = <<>>
    /\ amnestyIndex = 0
    /\ InitTail

SpecMatrix == InitMatrix /\ [][NextAnalysis \/ NextMatrix]_vars

----------------------------------------------------------------------------
(* The count queries called on the parser after the files are read *)

QueriedNames == AnalysedAuthors \cup {Str("Eve")}

QueryWords ==
    /\ pc = "contributors" /\ error = "none"
    /\ \E name \in QueriedNames :
          result' = Some([query |-> "contributorNumberOfWords", name |-> name,
                          returned |-> contributorNumberOfWords(messages, name)])
    /\ UNCHANGED <<parserVars, events, pc, feedVars, mainVars, matrixVars>>

QueryChars ==
    /\ pc = "contributors" /\ error = "none"
    /\ \E name \in QueriedNames :
          result' = Some([query |-> "contributorNumberOfChars", name |-> name,
                          returned |-> contributorNumberOfChars(messages, name)])
    /\ UNCHANGED <<parserVars, events, pc, feedVars, mainVars, matrixVars>>

NextQueries == QueryWords \/ QueryChars

SpecQueries == InitAnalysis /\ [][NextQueries]_vars

----------------------------------------------------------------------------
(* Properties of the extractor *)

IsPrefix(s, t) == Len(s) <= Len(t) /\ SubSeq(t, 1, Len(s)) = s

\* what the specification expects of a block: the three fields, trimmed
Trimmed(b) == Message(Strip(b.author), Strip(b.text), Strip(b.title))

\* what the extractor assigns for a block
Extracted(b) == Message(Strip(Remove(b.author, ViaGif)), Strip(b.text), Strip(b.title))

\* C1: after the events of one well-formed single-message fragment a fresh
\* parser holds exactly one Message, with the trimmed author, body and title.
C1_SingleFragmentYieldsOneMessage ==
    (Len(blocks) = 1 /\ pos = 0) => messages = <<Trimmed(blocks[1])>>

HasMessageClass(attributes) ==
    \E i \in 1..Len(attributes) :
        /\ attributes[i].name = "class"
        /\ attributes[i].value /= None
        /\ InList(Str("message"), SplitOn(attributes[i].value[1], <<SP>>))

PendingIncomplete == messageAuthor = None \/ messageText = None \/ messageDate = None

\* C2: a 'message' tag-open arriving while a pending field is unset appends
\* no Message and leaves all three pending fields unset.
C2_IncompleteBoundaryResets ==
    [][\A tag \in TagNames, attributes \in AttrLists :
          (/\ Running
           /\ HasMessageClass(attributes)
           /\ PendingIncomplete
           /\ events' = events + 1
           /\ Parser' = handle_starttag(Parser, tag, attributes)
           /\ error' = "none")
          => (/\ messages' = messages
              /\ messageAuthor' = None
              /\ messageText' = None
              /\ messageDate' = None)]_vars

\* C3: every Message of the sequence has a non-empty author, text and
\* timestamp string.
C3_MessagesNonEmpty ==
    \A i \in 1..Len(messages) :
        /\ messages[i].author /= <<>>
        /\ messages[i].message /= <<>>
        /\ messages[i].date /= <<>>

\* C4: no sequence of tag-open and text-data events brings the extractor
\* into an error state.
C4_NeverFails == pc = "feed" => error = "none"

\* C5: a complete pending message is committed only by a later 'message'
\* boundary: the k-th block is appended at the boundary of block k+1, also
\* when that boundary is in a later file, and the block pending when the
\* loop over the files ends is not appended (one Message fewer than blocks).
C5_LastBlockHeldBack ==
    /\ Len(messages) = (IF blocks = <<>> THEN 0 ELSE Len(blocks) - 1)
    /\ \A k \in 1..Len(messages) : messages[k] = Extracted(blocks[k])
    /\ (pos = 0 /\ blocks /= <<>>) =>
          /\ messageAuthor = Some(Extracted(Current).author)
          /\ messageText = Some(Extracted(Current).message)
          /\ messageDate = Some(Extracted(Current).date)

C5_Witness ==
    /\ pc = "contributors"
    /\ Len(blocks) = 3
    /\ blocks[2].file = 1 /\ blocks[3].file = 2
    /\ Len(messages) = 2
    /\ messageAuthor /= None /\ messageText /= None /\ messageDate /= None

\* C7: the message sequence is append-only and in document order: an event
\* of the extractor keeps the sequence as a prefix and appends at most one.
C7_AppendOnly ==
    [][pc = "feed" => (IsPrefix(messages, messages') /\ Len(messages') <= Len(messages) + 1)]_vars

C7_Witness ==
    /\ pc = "feed"
    /\ Len(messages) = 2
    /\ messages[1] /= messages[2]

ClassIndexes(attributes) == {i \in 1..Len(attributes) : attributes[i].name = "class"}
TitleIndexes(attributes) == {i \in 1..Len(attributes) : attributes[i].name = "title"}

\* a tag with one class attribute holding 'date' and not 'message', and one
\* title attribute with a value
IsDateTagWithTitle(attributes) ==
    /\ Cardinality(ClassIndexes(attributes)) = 1
    /\ Cardinality(TitleIndexes(attributes)) = 1
    /\ \A i \in ClassIndexes(attributes) :
          /\ attributes[i].value /= None
          /\ InList(Str("date"), SplitOn(attributes[i].value[1], <<SP>>))
          /\ ~InList(Str("message"), SplitOn(attributes[i].value[1], <<SP>>))
    /\ \A i \in TitleIndexes(attributes) : attributes[i].value /= None

TitleOf(attributes) == attributes[CHOOSE i \in TitleIndexes(attributes) : TRUE].value[1]

\* C8: a 'date' tag with a title sets pendingTimestamp to the trimmed title,
\* wherever the title stands relative to the class attribute.
C8_DateTitleAnyOrder ==
    [][\A tag \in TagNames, attributes \in AttrLists :
          (/\ Running
           /\ IsDateTagWithTitle(attributes)
           /\ events' = events + 1
           /\ Parser' = handle_starttag(Parser, tag, attributes))
          => messageDate' = Some(Strip(TitleOf(attributes)))]_vars

----------------------------------------------------------------------------
(* Properties of the pipeline *)

\* C6: an appended Message is never changed afterwards, neither by further
\* events nor by the queries nor by the building of the timelines.
C6_MessagesImmutable ==
    [][\A i \in 1..Len(messages) : i <= Len(messages') /\ messages'[i] = messages[i]]_vars

\* the date named by the raw timestamp of a message
DayOf(m) == m.date[1].n

\* number of the messages of an author dated on or before a date
CountUpTo(name, date) ==
    Cardinality({j \in 1..Len(messages) : messages[j].author = name /\ DayOf(messages[j]) <= date})

CumulativeTimeline(c) ==
    LET tl == c.timeline
    IN /\ Len(tl) >= 1
       /\ \A k \in 1..(Len(tl) - 1) :
             tl[k].key < tl[k + 1].key /\ tl[k].value <= tl[k + 1].value
       /\ \A k \in 1..Len(tl) : tl[k].value = CountUpTo(c.name, tl[k].key)

\* C9: the timeline built for an author has strictly increasing dates and
\* non-decreasing values, each the running sum of the author's per-day counts.
C9_TimelineCumulative ==
    \A i \in (amnestyIndex + 1)..Len(contributorData) : CumulativeTimeline(contributorData[i])

C9_Witness ==
    \E i \in (amnestyIndex + 1)..Len(contributorData) :
        /\ Len(contributorData[i].timeline) = 2
        /\ contributorData[i].timeline[1].value = 2
        /\ contributorData[i].timeline[2].value = 3

FirstRetained(tl) == CHOOSE k \in 1..Len(tl) : \A j \in 1..Len(tl) : tl[k].key <= tl[j].key

Rebased(c, cutoff) ==
    LET tl == c.timeline
    IN /\ \A k \in 1..Len(tl) : tl[k].key > cutoff
       /\ IF tl = <<>>
          THEN c.nMessages = 0
          ELSE /\ tl[FirstRetained(tl)].value = 0
               /\ \A k \in 1..Len(tl) :
                     tl[k].value = CountUpTo(c.name, tl[k].key)
                                   - CountUpTo(c.name, tl[FirstRetained(tl)].key)

\* C10: after the amnesty with cutoff d a timeline has no date on or before
\* d; it is empty with message count 0, or its first value is 0 and every
\* value is the original one minus the original one at the first kept date.
C10_AmnestyRebased ==
    pc \in {"amnesty", "rmnpc"} =>
        \A i \in 1..amnestyIndex : Rebased(contributorData[i], start_date[1])

C10_Witness ==
    /\ pc \in {"amnesty", "rmnpc"}
    /\ \E i \in 1..amnestyIndex :
        /\ Len(contributorData[i].timeline) = 2
        /\ contributorData[i].timeline[2].value = 1
        /\ CountUpTo(contributorData[i].name, start_date[1]) = 1

----------------------------------------------------------------------------
(* Properties of the queries and of blocks with missing parts *)

\* C15: the word count and the character count of an author without any
\* message are 0 and no error.
C15_EmptyCountsAreZero ==
    (result /= None /\ contributorMessages(messages, result[1].name) = <<>>)
        => (result[1].returned.error = "none" /\ result[1].returned.value = 0)

CompleteBlock(b) == b.author /= None /\ b.text /= None /\ b.title /= None

\* C16: the author, text and timestamp of every appended Message come from
\* one and the same message block.
C16_FieldsOfOneBlock ==
    \A m \in 1..Len(messages) :
        \E k \in 1..Len(blocks) :
            /\ CompleteBlock(blocks[k])
            /\ messages[m] = Extracted([author |-> blocks[k].author[1],
                                        text |-> blocks[k].text[1],
                                        title |-> blocks[k].title[1]])

\* C17: a text-data event leaves both flags disarmed, changes nothing when
\* neither flag was armed, and never changes the pending timestamp or the
\* message sequence.
C17_FlagsOneShot ==
    [][\A data \in DataInputs :
          (/\ Running
           /\ events' = events + 1
           /\ Parser' = handle_data(Parser, data))
          => (/\ ~makeNextDataName'
              /\ ~makeNextDataText'
              /\ (~makeNextDataName /\ ~makeNextDataText) => Parser' = Parser
              /\ messageDate' = messageDate
              /\ messages' = messages)]_vars

C17_Witness ==
    /\ pc = "feed"
    /\ messageAuthor /= None /\ messageText /= None /\ messageDate /= None
    /\ ~makeNextDataName /\ ~makeNextDataText
    /\ messages /= <<>>

----------------------------------------------------------------------------
(* Properties of the sorted contributors and of the correlation matrix *)

\* the value of a timeline at its largest date, 0 for an empty timeline
LastValue(tl) ==
    IF tl = <<>> THEN 0
    ELSE tl[CHOOSE k \in 1..Len(tl) : \A n \in 1..Len(tl) : tl[n].key <= tl[k].key].value

\* C19: when the matrix ordering is computed the message count of every
\* author is the last value of the author's timeline, 0 for an empty one,
\* without amnesty and after it.
C19_CountIsLastValue ==
    pc = "sort" =>
        \A n \in 1..Len(contributorData) :
            contributorData[n].nMessages = LastValue(contributorData[n].timeline)

C19_Witness ==
    /\ pc = "sort"
    /\ start_date /= None
    /\ \E n \in 1..Len(contributorData) :
          /\ Len(contributorData[n].timeline) = 2
          /\ contributorData[n].nMessages = 1
          /\ CountUpTo(contributorData[n].name, start_date[1]) = 1

\* the pairs the loop has left behind
Processed(r, c) ==
    /\ r \in 1..Authors /\ c \in 1..Authors
    /\ pc \in {"rows", "walk", "names"}
    /\ \/ r <= iIndex
       \/ r = iIndex + 1 /\ c <= jIndex

MinKey(tl) == CHOOSE k \in {tl[n].key : n \in 1..Len(tl)} : \A n \in 1..Len(tl) : k <= tl[n].key
MaxKey(tl) == CHOOSE k \in {tl[n].key : n \in 1..Len(tl)} : \A n \in 1..Len(tl) : k >= tl[n].key

\* an empty timeline, disjoint date ranges, or a common window of one day
InsufficientOverlap(a, b) ==
    \/ a = <<>>
    \/ b = <<>>
    \/ Max2(MinKey(a), MinKey(b)) >= Min2(MaxKey(a), MaxKey(b))

\* C11: insufficient overlap of a pair of timelines is never fatal: the run
\* does not fail, and the cell of every such pair the loop has passed is 0.
C11_InsufficientOverlapNonFatal ==
    /\ error = "none"
    /\ \A r \in 1..Authors, c \in 1..Authors :
          (Processed(r, c) /\ InsufficientOverlap(contributorDataSortedByNMessages[r].timeline,
                                                  contributorDataSortedByNMessages[c].timeline))
             => correlationMatrix[<<r, c>>].num = 0

\* the value of a timeline at its most recent key up to a day
FillValue(tl, day) ==
    DictGet(tl, CHOOSE k \in {tl[n].key : n \in 1..Len(tl)} :
                   /\ k <= day
                   /\ \A n \in 1..Len(tl) : tl[n].key <= day => tl[n].key <= k)

\* C12: during the walk both aligned series hold the days after the first
\* common date up to the day reached, in order, and each aligned value is the
\* timeline's value at its most recent key up to that day.
C12_ForwardFill ==
    pc = "walk" =>
        /\ DictKeys(commonFirstTimeline) = [k \in 1..(walkDate - firstCommonDate) |-> firstCommonDate + k]
        /\ DictKeys(commonSecondTimeline) = DictKeys(commonFirstTimeline)
        /\ \A k \in 1..Len(commonFirstTimeline) :
              /\ commonFirstTimeline[k].value = FillValue(FirstTimeline, firstCommonDate + k)
              /\ commonSecondTimeline[k].value = FillValue(SecondTimeline, firstCommonDate + k)

C12_Witness ==
    /\ pc = "walk"
    /\ walkDate = lastCommonDate
    /\ \E k \in 1..Len(commonFirstTimeline) :
          /\ ~DictHas(FirstTimeline, commonFirstTimeline[k].key)
          /\ DictHas(SecondTimeline, commonFirstTimeline[k].key)
          /\ commonFirstTimeline[k].value = 1

RowAllEqual(r) ==
    \A c \in 1..Authors : SameCell(correlationMatrix[<<r, c>>], correlationMatrix[<<r, 1>>])

StrictMax(r, c) ==
    \A d \in 1..Authors : d /= c => Greater(correlationMatrix[<<r, c>>], correlationMatrix[<<r, d>>])

\* C13: with two authors or more, a finished row whose scores are all equal
\* is recorded as -1, and a finished row with a strictly maximal score is
\* recorded with the column of that score.
C13_MostTriggered ==
    \A r \in 1..Len(mostTriggeredIndices) :
      Authors >= 2 =>
        /\ RowAllEqual(r) => mostTriggeredIndices[r] = -1
        /\ \A c \in 1..Authors :
              (~RowAllEqual(r) /\ StrictMax(r, c)) => mostTriggeredIndices[r] = c - 1

\* C14: when the matrix is complete, no cell of row i or of column i is
\* greater than the diagonal cell [i][i].
C14_DiagonalIsMaximum ==
    pc = "names" =>
        \A r \in 1..Authors, c \in 1..Authors :
            /\ ~Greater(correlationMatrix[<<r, c>>], correlationMatrix[<<r, r>>])
            /\ ~Greater(correlationMatrix[<<c, r>>], correlationMatrix[<<r, r>>])

\* C18: a walk that has started lies between the first and the last common
\* date and has taken one step per day since the first, so it ends after
\* exactly (last - first) steps.
C18_WalkTerminates ==
    pc = "walk" =>
        /\ firstCommonDate <= walkDate
        /\ walkDate <= lastCommonDate
        /\ Len(commonFirstTimeline) = walkDate - firstCommonDate
        /\ Len(commonSecondTimeline) = walkDate - firstCommonDate

C18_Witness ==
    /\ pc = "walk"
    /\ walkDate = lastCommonDate
    /\ lastCommonDate - firstCommonDate = 2
    /\ Len(commonFirstTimeline) = 2

====
